---- MODULE Spec2Model ----
(***************************************************************************)
(* A model of netsim: path reconstruction from backlink grids              *)
(* (netsim/path_tools.py) and the sequential network simulation            *)
(* (netsim/netsim.py), with the chamfer constants of netsim/chamfer.py.    *)
(*                                                                         *)
(* SpecPaths runs create_paths on caller-supplied backlink arrays.         *)
(* Spec runs simulation over an edge list.                                 *)
(* SpecFlat runs one distance transform and one trace on a flat grid.      *)
(* SpecTable runs netgen.__paths_table with option 'all'.                  *)
(***************************************************************************)
EXTENDS Integers, Sequences, FiniteSets, TLC

(***************************************************************************)
(* Bounds of the model.                                                    *)
(***************************************************************************)
\* grid shape of SpecPaths and Spec: blx.shape / dem.shape
Rows == 3
Cols == 3
\* number of non-zero entries the caller's backlink arrays hold along traces
MaxNonZero == 2
\* length of the destinations list handed to create_paths
MaxDest == 2
\* number of rows of net_layout
MaxEdges == 2

\* length of the list ids handed to __paths_table
MaxIds == 3
\* side of the square grid of SpecFlat
FlatSize == 5

\* the while loop of create_paths is followed for at most this many iterations
MaxSteps == Rows * Cols + 1

(***************************************************************************)
(* chamfer.py                                                              *)
(***************************************************************************)
wsize == 5
nsize == wsize \div 2

\* every offset the chamfer window can hold, (0,0) included
Window == (-nsize .. nsize) \X (-nsize .. nsize)

\* chamfer window offsets, rows of dx / dy zipped: <<row offset, column offset>>
dxdy0 == << <<-2,-1>>, <<-2,1>>, <<-1,-2>>, <<-1,-1>>, <<-1,0>>, <<-1,1>>, <<-1,2>>, <<0,-1>> >>
dxdy1 == << <<0,1>>, <<1,-2>>, <<1,-1>>, <<1,0>>, <<1,1>>, <<1,2>>, <<2,-1>>, <<2,1>> >>

ChamferOffsets == {dxdy0[j] : j \in 1..8} \cup {dxdy1[j] : j \in 1..8}

VARIABLES
    \* the shape of the arrays (blx.shape, dem.shape)
    nrows, ncols,
    \* cost_dict and netsim_dict entries that nothing assigns
    dem_finite,      \* whether cost_dict['dem'] holds finite values only
    weight,          \* cost_dict['weight']
    alpha,           \* netsim_dict['alpha'], in units of 1e-4
    \* create_paths: arguments
    blx, bly,        \* backlink arrays (an entry is fixed when first read)
    known,           \* cells of blx, bly read so far
    origin,          \* origin[0]
    destinations,    \* list of destinations
    \* create_paths: locals
    cp_pc,           \* "idle", "loop", "done", "IndexError"
    di,              \* position of the for loop in destinations
    r0, c0,          \* current location
    pth,             \* array of the current path
    rcs,             \* rows & columns of the current path
    paths,           \* array of all paths
    path_num,        \* path number
    path_lst,        \* list of path dictionaries
    nsteps,          \* iterations of the while loop for the current destination
    \* simulation: arguments
    net_layout,      \* rows of net_layout that iterrows has yielded so far
    netcost,         \* cost_dict['netcost']
    i, Gmax, T,      \* netsim_dict
    \* simulation: locals
    sim_pc,          \* position in simulation
    sim_origin,      \* origin  (a list of one location)
    sim_destination, \* destination  (a list of one location)
    acs,             \* accumulated cost surface
    Gt, Gt_1,        \* ground potential, and that of the previous edge
    sim_paths,       \* paths
    sim_path_lst,    \* path_lst
    path_t,          \* raster returned by create_paths for the current edge
    \* simulation: what was passed and assigned, edge by edge
    seen,            \* cost_dict['netcost'] at each call of calculate_iwdt
    written,         \* the values assigned to cost_dict['netcost']
    rasters,         \* the values of path_t
    seeds,           \* the acs handed to calculate_iwdt
    pairs,           \* what each call of calculate_iwdt ended with: pairs taken, last change, failure
    \* __paths_table: arguments and locals
    ids,             \* an iteration of location ids
    iteration,       \* identifier of the current iteration
    df_out,          \* rows of df_out: <<origin, destination, iteration>>
    o_indx,          \* position of the outer loop (0-based)
    d_pos,           \* position of the inner loop in d_indxs (1-based)
    tbl_pc           \* "idle", "loop", "done", "IndexError"

gridvars == <<nrows, ncols>>

cfgvars == <<dem_finite, weight, alpha>>

cpvars == <<blx, bly, known, origin, destinations, cp_pc, di, r0, c0, pth, rcs,
            paths, path_num, path_lst, nsteps>>

simvars == <<net_layout, netcost, i, Gmax, T, sim_pc, sim_origin, sim_destination,
             acs, Gt, Gt_1, sim_paths, sim_path_lst, path_t, seen, written, rasters,
             seeds, pairs>>

tblvars == <<ids, iteration, df_out, o_indx, d_pos, tbl_pc>>

\* what neither create_paths nor simulation assigns
fixedvars == <<gridvars, cfgvars, tblvars>>

vars == <<gridvars, cfgvars, cpvars, simvars, tblvars>>

(***************************************************************************)
(* numpy arrays of shape (nrows, ncols)                                    *)
(***************************************************************************)
Cells == (0 .. nrows - 1) \X (0 .. ncols - 1)

\* an index numpy accepts on an axis of length n: negative ones count from the end
ValidIdx(a, n) == -n <= a /\ a < n
WrapIdx(a, n) == IF a < 0 THEN a + n ELSE a

ValidCell(r, c) == ValidIdx(r, nrows) /\ ValidIdx(c, ncols)
\* the cell arr[r, c] names
At(r, c) == <<WrapIdx(r, nrows), WrapIdx(c, ncols)>>

\* np.zeros_like
Zeros == [x \in Cells |-> 0]

Abs(a) == IF a < 0 THEN -a ELSE a
Max(a, b) == IF a < b THEN b ELSE a
Chebyshev(p, q) == Max(Abs(p[1] - q[1]), Abs(p[2] - q[2]))

(***************************************************************************)
(* path_tools.__segment                                                    *)
(***************************************************************************)
RECURSIVE segment_loop(_, _, _, _, _, _, _, _, _, _, _)
segment_loop(r, c, e, r1, c1, delta_r, delta_c, sign_r, sign_c, path, rcs_) ==
    IF r = r1 /\ c = c1 THEN [path |-> path, rcs |-> rcs_]
    ELSE LET e2 == 2 * e
             mc == e2 > -delta_r
             ea == IF mc THEN e - delta_r ELSE e
             ca == IF mc THEN c + sign_c ELSE c
             mr == e2 < delta_c
             eb == IF mr THEN ea + delta_c ELSE ea
             rb == IF mr THEN r + sign_r ELSE r
         IN  segment_loop(rb, ca, eb, r1, c1, delta_r, delta_c, sign_r, sign_c,
                          [path EXCEPT ![At(r, c)] = 1], Append(rcs_, <<r, c>>))

\* a segment that records its first cell only and jumps to the end
segment_jump(ra, ca, r1, c1, path, rcs_) ==
    [path |-> [path EXCEPT ![At(ra, ca)] = 1], rcs |-> Append(rcs_, <<ra, ca>>)]

\* First location is included in the segment but not the last one.
\* Every cell written lies between the two ends, so path[r, c] = 1 raises no
\* IndexError when both ends are valid indices.
segment(ra, ca, r1, c1, path, rcs_) ==
    LET delta_c == Abs(c1 - ca)
        delta_r == Abs(r1 - ra)
        sign_c == IF ca < c1 THEN 1 ELSE -1
        sign_r == IF ra < r1 THEN 1 ELSE -1
        e == delta_c - delta_r
    IN  segment_loop(ra, ca, e, r1, c1, delta_r, delta_c, sign_r, sign_c, path, rcs_)

(***************************************************************************)
(* path_tools.create_paths                                                 *)
(***************************************************************************)
\* the backlink entry at a cell already read
Backlink(x) == <<blx[x], bly[x]>>

NonZeroKnown == {x \in known : Backlink(x) # <<0, 0>>}

\* a read that gives any entry, whatever was read or stored before
Entries_any(x) == Window

\* what reading blx[r0, c0], bly[r0, c0] can give: the entry read before, or, at a
\* first read, any entry of the caller's arrays
Entries(x) ==
    IF x \in known THEN {Backlink(x)}
    ELSE IF Cardinality(NonZeroKnown) < MaxNonZero THEN Window
    ELSE {<<0, 0>>}

\* paths += pth, with the rasters of a batch or-ed instead
AddPath_or(ps, p) == [x \in Cells |-> Max(ps[x], p[x])]

\* paths += pth
AddPath(ps, p) == [x \in Cells |-> ps[x] + p[x]]

\* the track reversed before it is stored
Track_reversed(l) == [j \in 1 .. Len(l) |-> l[Len(l) + 1 - j]]

\* 'track': np.array(rcs).T  (the cells in the order collected)
Track(l) == l

\* while (blx[r0, c0] != 0) or (bly[r0, c0] != 0): one iteration
Follow ==
    /\ cp_pc = "loop"
    /\ nsteps < MaxSteps
    /\ ValidCell(r0, c0)
    /\ \E off \in Entries(At(r0, c0)) :
          /\ off # <<0, 0>>
          /\ blx' = [blx EXCEPT ![At(r0, c0)] = off[1]]
          /\ bly' = [bly EXCEPT ![At(r0, c0)] = off[2]]
          /\ known' = known \cup {At(r0, c0)}
          /\ LET r1 == r0 + off[1]
                 c1 == c0 + off[2]
                 s == segment(r0, c0, r1, c1, pth, rcs)
             IN  IF ValidCell(r1, c1)
                 THEN /\ pth' = s.path
                      /\ rcs' = s.rcs
                      /\ r0' = r1
                      /\ c0' = c1
                      /\ nsteps' = nsteps + 1
                      /\ UNCHANGED cp_pc
                 ELSE \* path[r, c] = 1 or the next blx[r0, c0] raises
                      /\ cp_pc' = "IndexError"
                      /\ UNCHANGED <<pth, rcs, r0, c0, nsteps>>
    /\ UNCHANGED <<origin, destinations, di, paths, path_num, path_lst>>
    /\ UNCHANGED <<simvars, fixedvars>>

\* the loop ends at a cell whose backlink is (0, 0): add very last location,
\* store path information, add new path; next destination or return
Finish ==
    /\ cp_pc = "loop"
    /\ ValidCell(r0, c0)
    /\ <<0, 0>> \in Entries(At(r0, c0))
    /\ known' = known \cup {At(r0, c0)}
    /\ LET pthF == [pth EXCEPT ![At(r0, c0)] = 1]
           rcsF == Append(rcs, <<r0, c0>>)
       IN  /\ path_num' = path_num + 1
           /\ path_lst' = Append(path_lst,
                  [id |-> path_num + 1, origin |-> origin,
                   destination |-> destinations[di], track |-> Track(rcsF)])
           /\ paths' = AddPath(paths, pthF)
           /\ IF di < Len(destinations)
              THEN /\ di' = di + 1
                   /\ pth' = Zeros
                   /\ rcs' = <<>>
                   /\ r0' = destinations[di + 1][1]
                   /\ c0' = destinations[di + 1][2]
                   /\ nsteps' = 0
                   /\ UNCHANGED cp_pc
              ELSE /\ cp_pc' = "done"
                   /\ pth' = pthF
                   /\ rcs' = rcsF
                   /\ UNCHANGED <<di, r0, c0, nsteps>>
    /\ UNCHANGED <<blx, bly, origin, destinations>>
    /\ UNCHANGED <<simvars, fixedvars>>

\* blx[r0, c0] with r0, c0 not an index of the array
BadIndex ==
    /\ cp_pc = "loop"
    /\ ~ValidCell(r0, c0)
    /\ cp_pc' = "IndexError"
    /\ UNCHANGED <<blx, bly, known, origin, destinations, di, r0, c0, pth, rcs,
                   paths, path_num, path_lst, nsteps>>
    /\ UNCHANGED <<simvars, fixedvars>>

(***************************************************************************)
(* Exact fractions <<numerator, denominator>>, denominator > 0, in lowest  *)
(* terms: the values of the float64 arrays Gt, Gt_1 and of i, Gmax, T.     *)
(***************************************************************************)
RECURSIVE GCD(_, _)
GCD(a, b) == IF b = 0 THEN a ELSE GCD(b, a % b)

Frac(n, d) ==
    LET g == GCD(Abs(n), Abs(d))
        sg == IF d < 0 THEN -1 ELSE 1
    IN  <<(sg * n) \div g, (sg * d) \div g>>

Num(n) == <<n, 1>>
FAdd(a, b) == Frac(a[1] * b[2] + b[1] * a[2], a[2] * b[2])
FSub(a, b) == Frac(a[1] * b[2] - b[1] * a[2], a[2] * b[2])
FMul(a, b) == Frac(a[1] * b[1], a[2] * b[2])
FDiv(a, b) == Frac(a[1] * b[2], a[2] * b[1])
FLeq(a, b) == a[1] * b[2] <= b[1] * a[2]

(***************************************************************************)
(* netsim.iwdt: calculate_iwdt and calculate_dt.  The module is imported   *)
(* by netsim.py and is not among the sources; it is modelled here from the *)
(* description of the distance transform, with the constants of            *)
(* chamfer.py.  Costs are held in units of 1e-4.                           *)
(***************************************************************************)
\* chamfer coefficients a1, a2, a3 (2.2062, 1.4141, 0.9866)
a1 == 22062
a2 == 14141
a3 == 9866

\* local distance metric
ldm0 == <<a1, a1, a1, a2, a3, a2, a1, a3>>
ldm1 == <<a3, a1, a2, a3, a2, a1, a1, a1>>

\* threshold for distance transform convergence (0.5)
threshold == 5000

\* np.full_like(Gt, 999999.0) and np.full_like(Gt, 99999.0): the values of unreached
\* cells.  They are kept as the numbers of the source (999999.0 in units of 1e-4 is
\* beyond TLC's integers); what the transform uses of them is that they lie above
\* every cost a grid of the model's size can hold (at most a few times a1).
acs_fill == 999999
d_fill == 99999

\* the cap on sweep pairs
IterCap == nrows * ncols

NCells == nrows * ncols
\* the k-th cell in row-major order
CellAt(k) == <<(k - 1) \div ncols, (k - 1) % ncols>>

\* the terrain cost of a flat dem: the slope-to-cost polynomial at slope 0
flat_cost == 2

\* float64: np.exp(x) is exactly 0.0 for x <= -exp_limit
exp_limit == 746

\* the value of an entry of cost_dict['netcost'].  1.0 - np.exp(d / alpha) is
\* exactly 0.0 at d = 0 and, for alpha < 0, exactly 1.0 once d / alpha is at or
\* below -exp_limit; the alphas of the model keep every d > 0 in that range.
NetcostValue(v) ==
    CASE v[1] = "caller" -> v[2]
      [] v[1] = "exp" /\ v[2] = 0 -> 0
      [] v[1] = "exp" /\ v[2] # 0 /\ alpha < 0 /\ v[2] >= exp_limit * (-alpha) -> 1

\* the sign of an entry of cost_dict['netcost']: exp(d / alpha) is 1 at d = 0,
\* below 1 for d / alpha < 0 and above 1 (inf on overflow) for d / alpha > 0
NetcostSign(v) ==
    CASE v[1] = "caller" -> IF v[2] > 0 THEN 1 ELSE IF v[2] < 0 THEN -1 ELSE 0
      [] v[1] = "exp" /\ v[2] = 0 -> 0
      [] v[1] = "exp" /\ v[2] > 0 -> IF alpha < 0 THEN 1 ELSE -1
      [] v[1] = "exp" /\ v[2] < 0 -> IF alpha < 0 THEN -1 ELSE 1

\* the terrain cost alone, netcost left unread
local_cost_flat(x, nc) == flat_cost

\* the cost of a unit step into cell x: the terrain cost of a flat dem less a
\* discount proportional to netcost[x] * weight
local_cost(x, nc) ==
    IF weight = 0 THEN flat_cost ELSE flat_cost - weight * NetcostValue(nc[x])

\* the candidates of cell x, one per offset of the half window that names a cell n
\* of the grid: candidate = acs[n] + chamfer_base * local_cost(x)
candidates(st, x, offs, ldm, lc) ==
    [j \in {h \in 1 .. Len(offs) : /\ 0 <= x[1] + offs[h][1] /\ x[1] + offs[h][1] < nrows
                                  /\ 0 <= x[2] + offs[h][2] /\ x[2] + offs[h][2] < ncols}
        |-> st.acs[<<x[1] + offs[j][1], x[2] + offs[j][2]>>] + ldm[j] * lc[x]]

\* the first of the smallest candidates
first_smallest(cand) ==
    CHOOSE j \in DOMAIN cand :
        \A h \in DOMAIN cand : cand[j] < cand[h] \/ (cand[j] = cand[h] /\ j <= h)

\* the candidate of offset j replaces acs[x] when strictly smaller
improve(st, x, offs, cand, j) ==
    IF cand[j] < st.acs[x]
    THEN [acs |-> [st.acs EXCEPT ![x] = cand[j]],
          blx |-> [st.blx EXCEPT ![x] = offs[j][1]],
          bly |-> [st.bly EXCEPT ![x] = offs[j][2]]]
    ELSE st

\* cell x against the candidates cand
relax_with(st, x, offs, cand) ==
    IF DOMAIN cand = {} THEN st ELSE improve(st, x, offs, cand, first_smallest(cand))

\* cell x against its candidates.  A candidate replaces acs[x] only when strictly
\* smaller, so after the offsets have been tried in order the first of the smallest
\* candidates has won.
relax(st, x, offs, ldm, lc) == relax_with(st, x, offs, candidates(st, x, offs, ldm, lc))

RECURSIVE sweep(_, _, _, _, _, _)
\* the sweep goes on from cell k + dir with what the relaxation of cell k gave
sweep_on(st, nx, k, dir, offs, ldm, lc) ==
    IF nx = st THEN sweep(st, k + dir, dir, offs, ldm, lc)
    ELSE sweep(nx, k + dir, dir, offs, ldm, lc)

\* one sweep over the cells, forward (dir = 1) or backward (dir = -1)
sweep(st, k, dir, offs, ldm, lc) ==
    IF k < 1 \/ k > NCells THEN st
    ELSE sweep_on(st, relax(st, CellAt(k), offs, ldm, lc), k, dir, offs, ldm, lc)

\* the largest value of f (values >= 0)
MaxOver(f, S) ==
    LET vals == {f[x] : x \in S} \cup {0}
    IN  CHOOSE m \in vals : \A v \in vals : v <= m

\* the largest change between two cost surfaces
largest_change(old, new) == MaxOver([x \in Cells |-> Abs(new[x] - old[x])], Cells)

\* the result of a pair of sweeps that ended with bw
pair_result(st, bw) ==
    [acs |-> bw.acs, blx |-> bw.blx, bly |-> bw.bly, change |-> largest_change(st.acs, bw.acs)]

\* the forward sweep alone
sweep_pair_forward(st, lc) == pair_result(st, sweep(st, 1, 1, dxdy0, ldm0, lc))

\* a forward and a backward sweep; change: the largest change of the pair
sweep_pair(st, lc) ==
    pair_result(st, sweep(sweep(st, 1, 1, dxdy0, ldm0, lc), NCells, -1, dxdy1, ldm1, lc))

\* what a call that ends after the pair p returns
call_result(p, it, err) ==
    [acs |-> p.acs, blx |-> p.blx, bly |-> p.bly, err |-> err, it |-> it, change |-> p.change]

\* a single sweep pair, returned whatever it changed
sweep_pairs_once(st, it, lc) == call_result(sweep_pair(st, lc), it, FALSE)

RECURSIVE sweep_pairs_capped(_, _, _, _)
\* after the pair p: done below the threshold, failed at the cap, else one more pair
after_pair(p, it, lc, cap) ==
    IF p.change < threshold THEN call_result(p, it, FALSE)
    ELSE IF it >= cap THEN call_result(p, it, TRUE)
    ELSE sweep_pairs_capped([acs |-> p.acs, blx |-> p.blx, bly |-> p.bly], it + 1, lc, cap)

\* sweep pairs until the largest change of a pair is below the threshold; at the
\* cap without convergence the call fails
sweep_pairs_capped(st, it, lc, cap) == after_pair(sweep_pair(st, lc), it, lc, cap)

\* the convergence loop under the cap of the engine
sweep_pairs(st, it, lc) == sweep_pairs_capped(st, it, lc, IterCap)

\* acs, blx, bly = calculate_iwdt(acs, cost_dict), with nc = cost_dict['netcost'];
\* a dem with a non-finite value makes the call fail
calculate_iwdt(seed, nc) ==
    IF dem_finite
    THEN sweep_pairs([acs |-> seed, blx |-> Zeros, bly |-> Zeros], 1,
                     [x \in Cells |-> local_cost(x, nc)])
    ELSE [acs |-> seed, blx |-> Zeros, bly |-> Zeros, err |-> TRUE, it |-> 0, change |-> 0]

\* d = calculate_dt(d, cellsize, option=2): the distance to the nearest cell of
\* value 0, every step at the cost of its length (cellsize 1)
calculate_dt(seed) ==
    sweep_pairs([acs |-> seed, blx |-> Zeros, bly |-> Zeros], 1, [x \in Cells |-> 1]).acs

(***************************************************************************)
(* netsim.simulation                                                       *)
(***************************************************************************)
\* pts: id -> <<r, c>>.  Two locations of the grid, one with a negative row and
\* one with a column past the last.
pts == (0 :> <<0, 0>>) @@ (1 :> <<Rows - 1, Cols - 1>>) @@
       (2 :> <<-1, 0>>) @@ (3 :> <<0, Cols>>)

\* an id no row of pts holds
MissingId == Cardinality(DOMAIN pts)

\* the ids a row of net_layout may name
EdgeIds == DOMAIN pts \cup {MissingId}

\* netsim_dict: i, Gmax, T
Intensities == {Num(0), Num(1), Num(3)}
Ceilings == {Num(1), Num(2)}
Decays == {Frac(1, 2), Num(1), Num(2)}

\* cost_dict['netcost'] as the caller supplies it
netcost0 == [x \in Cells |-> <<"caller", 0>>]

\* 1.0 - np.exp(d / alpha), kept as the d it is computed from
NetcostOf(d) == [x \in Cells |-> <<"exp", d[x]>>]

\* the hot mask taken as Gt > 1.0
HotSeed_strict(g) == [x \in Cells |-> IF ~FLeq(g[x], Num(1)) THEN 0 ELSE d_fill]

\* d = np.full_like(Gt, 99999.0); d[Gt >= 1.0] = 0.0; calculate_dt(d, ...)
HotSeed(g) == [x \in Cells |-> IF FLeq(Num(1), g[x]) THEN 0 ELSE d_fill]

\* the growth term without the saturation factor
NewGt_unsaturated(g1, p) ==
    [x \in Cells |-> FAdd(FSub(g1[x], FDiv(g1[x], T)), FMul(Num(p[x]), i))]

\* Gt = Gt_1 - (Gt_1/T) + path_t * i * (1 - (Gt_1 / Gmax))
NewGt(g1, p) ==
    [x \in Cells |->
        FAdd(FSub(g1[x], FDiv(g1[x], T)),
             FMul(FMul(Num(p[x]), i), FSub(Num(1), FDiv(g1[x], Gmax))))]

\* paths replaced by the raster of the last edge
AddToPaths_reset(ps, p) == p

\* paths += path_t
AddToPaths(ps, p) == [x \in Cells |-> ps[x] + p[x]]

\* the record put in front of the list
AppendRecord_front(lst, rec) == <<rec>> \o lst

\* path_lst.append(path_info)
AppendRecord(lst, rec) == Append(lst, rec)

\* the rows labelled from 1
pth_id_from_one == Len(net_layout)

\* pth_id: the index label of the current row (0, 1, ...)
pth_id == Len(net_layout) - 1
\* pth_def: the current row
pth_def == net_layout[Len(net_layout)]

\* cost_dict['weight'] and netsim_dict['alpha'] (-0.001 and 0.001).  A positive
\* alpha comes with weight 0 only: with a weight the transform would be handed
\* costs that are not finite.
CostConfigs == {<<0, -10>>, <<0, 10>>, <<1, -10>>}

cp_idle ==
    /\ blx = Zeros /\ bly = Zeros /\ known = {}
    /\ origin = <<0, 0>> /\ destinations = <<>>
    /\ cp_pc = "idle" /\ di = 0 /\ r0 = 0 /\ c0 = 0
    /\ pth = Zeros /\ rcs = <<>> /\ paths = Zeros
    /\ path_num = 0 /\ path_lst = <<>> /\ nsteps = 0

\* no __paths_table is running
tbl_idle ==
    /\ ids = <<>> /\ iteration = 0 /\ df_out = <<>>
    /\ o_indx = 0 /\ d_pos = 0 /\ tbl_pc = "idle"

\* simulation(pts, net_layout, cost_dict, netsim_dict) up to the for loop
Init ==
    /\ nrows = Rows
    /\ ncols = Cols
    /\ dem_finite \in BOOLEAN
    /\ \E cfg \in CostConfigs : weight = cfg[1] /\ alpha = cfg[2]
    /\ cp_idle
    /\ tbl_idle
    /\ seeds = <<>>
    /\ pairs = <<>>
    /\ net_layout = <<>>
    /\ netcost = netcost0
    /\ i \in Intensities
    /\ Gmax \in Ceilings
    /\ T \in Decays
    /\ sim_pc = "next"
    /\ sim_origin = <<>>
    /\ sim_destination = <<>>
    /\ acs = Zeros
    /\ Gt = [x \in Cells |-> Num(0)]
    /\ Gt_1 = [x \in Cells |-> Num(0)]
    /\ sim_paths = Zeros
    /\ sim_path_lst = <<>>
    /\ path_t = Zeros
    /\ seen = <<>>
    /\ written = <<>>
    /\ rasters = <<>>

\* for pth_id, pth_def in net_layout.iterrows(): the next row
NextEdge ==
    /\ sim_pc = "next"
    /\ Len(net_layout) < MaxEdges
    /\ \E o \in EdgeIds, d \in EdgeIds :
          net_layout' = Append(net_layout, [origin |-> o, destination |-> d])
    /\ sim_pc' = "lookup"
    /\ UNCHANGED <<netcost, i, Gmax, T, sim_origin, sim_destination, acs, Gt, Gt_1,
                   sim_paths, sim_path_lst, path_t, seen, written, rasters>>
    /\ UNCHANGED <<seeds, pairs, cpvars, fixedvars>>

\* the rows are exhausted: return Gt, paths, path_lst
Return ==
    /\ sim_pc = "next"
    /\ sim_pc' = "returned"
    /\ UNCHANGED <<net_layout, netcost, i, Gmax, T, sim_origin, sim_destination, acs,
                   Gt, Gt_1, sim_paths, sim_path_lst, path_t, seen, written, rasters>>
    /\ UNCHANGED <<seeds, pairs, cpvars, fixedvars>>

\* retrieve location @ origin & destination; .values[0] of an empty selection
\* raises IndexError
Lookup ==
    /\ sim_pc = "lookup"
    /\ IF pth_def.origin \in DOMAIN pts /\ pth_def.destination \in DOMAIN pts
       THEN /\ sim_origin' = <<pts[pth_def.origin]>>
            /\ sim_destination' = <<pts[pth_def.destination]>>
            /\ sim_pc' = "seed"
       ELSE /\ sim_pc' = "IndexError"
            /\ UNCHANGED <<sim_origin, sim_destination>>
    /\ UNCHANGED <<net_layout, netcost, i, Gmax, T, acs, Gt, Gt_1, sim_paths,
                   sim_path_lst, path_t, seen, written, rasters>>
    /\ UNCHANGED <<seeds, pairs, cpvars, fixedvars>>

\* the origin set to 0.0 in the acs left by the previous edge
Seed_carry ==
    /\ sim_pc = "seed"
    /\ LET r == sim_origin[1][1]
           c == sim_origin[1][2]
       IN  IF ValidCell(r, c)
           THEN /\ acs' = [acs EXCEPT ![At(r, c)] = 0]
                /\ sim_pc' = "iwdt"
           ELSE /\ sim_pc' = "IndexError"
                /\ UNCHANGED acs
    /\ UNCHANGED <<net_layout, netcost, i, Gmax, T, sim_origin, sim_destination, Gt,
                   Gt_1, sim_paths, sim_path_lst, path_t, seen, written, rasters>>
    /\ UNCHANGED <<seeds, pairs, cpvars, fixedvars>>

\* initialize ACS: acs[r, c] = 0.0 for r, c in origin
Seed ==
    /\ sim_pc = "seed"
    /\ LET r == sim_origin[1][1]
           c == sim_origin[1][2]
       IN  IF ValidCell(r, c)
           THEN /\ acs' = [[x \in Cells |-> acs_fill] EXCEPT ![At(r, c)] = 0]
                /\ sim_pc' = "iwdt"
           ELSE /\ sim_pc' = "IndexError"
                /\ UNCHANGED acs
    /\ UNCHANGED <<net_layout, netcost, i, Gmax, T, sim_origin, sim_destination, Gt,
                   Gt_1, sim_paths, sim_path_lst, path_t, seen, written, rasters>>
    /\ UNCHANGED <<seeds, pairs, cpvars, fixedvars>>

\* what simulation does with the return res of calculate_iwdt: the call
\* pt.create_paths(blx, bly, origin, destination, start_path=pth_id) up to the
\* first evaluation of its while condition
Transformed(res) ==
    /\ pairs' = Append(pairs, [it |-> res.it, change |-> res.change, err |-> res.err])
    /\ IF res.err
       THEN /\ sim_pc' = "NumericalError"
            /\ UNCHANGED <<acs, cpvars>>
       ELSE
         /\ acs' = res.acs
         /\ blx' = res.blx
         /\ bly' = res.bly
         /\ known' = Cells
         /\ origin' = sim_origin[1]
         /\ destinations' = sim_destination
         /\ cp_pc' = "loop"
         /\ di' = 1
         /\ r0' = sim_destination[1][1]
         /\ c0' = sim_destination[1][2]
         /\ pth' = Zeros
         /\ rcs' = <<>>
         /\ paths' = Zeros
         /\ path_num' = pth_id
         /\ path_lst' = <<>>
         /\ nsteps' = 0
         /\ sim_pc' = "trace"

\* acs, blx, bly = calculate_iwdt(acs, cost_dict), then the call of create_paths
Transform ==
    /\ sim_pc = "iwdt"
    /\ seen' = Append(seen, netcost)
    /\ seeds' = Append(seeds, acs)
    /\ UNCHANGED fixedvars
    /\ Transformed(calculate_iwdt(acs, netcost))
    /\ UNCHANGED <<net_layout, netcost, i, Gmax, T, sim_origin, sim_destination, Gt,
                   Gt_1, sim_paths, sim_path_lst, path_t, written, rasters>>

\* create_paths raised: the exception leaves simulation
TraceFails ==
    /\ sim_pc = "trace"
    /\ cp_pc = "IndexError"
    /\ sim_pc' = "IndexError"
    /\ UNCHANGED <<net_layout, netcost, i, Gmax, T, sim_origin, sim_destination, acs,
                   Gt, Gt_1, sim_paths, sim_path_lst, path_t, seen, written, rasters>>
    /\ UNCHANGED <<seeds, pairs, cpvars, fixedvars>>

\* path_t, path_info = the return of create_paths; update paths
Accumulate ==
    /\ sim_pc = "trace"
    /\ cp_pc = "done"
    /\ path_t' = paths
    /\ rasters' = Append(rasters, paths)
    /\ sim_paths' = AddToPaths(sim_paths, paths)
    /\ sim_path_lst' = AppendRecord(sim_path_lst, path_lst[1])
    /\ sim_pc' = "gt"
    /\ UNCHANGED <<net_layout, netcost, i, Gmax, T, sim_origin, sim_destination, acs,
                   Gt, Gt_1, seen, written>>
    /\ UNCHANGED <<seeds, pairs, cpvars, fixedvars>>

\* update ground potential
UpdateGt ==
    /\ sim_pc = "gt"
    /\ Gt' = NewGt(Gt_1, path_t)
    /\ sim_pc' = "netcost"
    /\ UNCHANGED <<net_layout, netcost, i, Gmax, T, sim_origin, sim_destination, acs,
                   Gt_1, sim_paths, sim_path_lst, path_t, seen, written, rasters>>
    /\ UNCHANGED <<seeds, pairs, cpvars, fixedvars>>

\* the update of the network cost left out
UpdateNetcost_skipped ==
    /\ sim_pc = "netcost"
    /\ sim_pc' = "copy"
    /\ UNCHANGED <<net_layout, netcost, i, Gmax, T, sim_origin, sim_destination, acs,
                   Gt, Gt_1, sim_paths, sim_path_lst, path_t, seen, written, rasters>>
    /\ UNCHANGED <<seeds, pairs, cpvars, fixedvars>>

\* update network cost
UpdateNetcost ==
    /\ sim_pc = "netcost"
    /\ netcost' = NetcostOf(calculate_dt(HotSeed(Gt)))
    /\ written' = Append(written, netcost')
    /\ sim_pc' = "copy"
    /\ UNCHANGED <<net_layout, i, Gmax, T, sim_origin, sim_destination, acs, Gt, Gt_1,
                   sim_paths, sim_path_lst, path_t, seen, rasters>>
    /\ UNCHANGED <<seeds, pairs, cpvars, fixedvars>>

\* update Gt_1
CopyGt ==
    /\ sim_pc = "copy"
    /\ Gt_1' = Gt
    /\ sim_pc' = "next"
    /\ UNCHANGED <<net_layout, netcost, i, Gmax, T, sim_origin, sim_destination, acs,
                   Gt, sim_paths, sim_path_lst, path_t, seen, written, rasters>>
    /\ UNCHANGED <<seeds, pairs, cpvars, fixedvars>>

(***************************************************************************)
(* simulation as a function of its arguments: what a run over the rows of  *)
(* layout returns, computed row by row from the caller's netcost.          *)
(***************************************************************************)
\* create_paths for one destination, from the first evaluation of the while
\* condition to the return; n bounds the iterations
RECURSIVE trace_loop(_, _, _, _, _, _, _)
trace_loop(bx, by, r, c, path, rcs_, n) ==
    IF ~ValidCell(r, c) \/ n = 0 THEN [err |-> TRUE, path |-> path, rcs |-> rcs_]
    ELSE IF bx[At(r, c)] = 0 /\ by[At(r, c)] = 0
    THEN [err |-> FALSE, path |-> [path EXCEPT ![At(r, c)] = 1],
          rcs |-> Append(rcs_, <<r, c>>)]
    ELSE LET r1 == r + bx[At(r, c)]
             c1 == c + by[At(r, c)]
             s == segment(r, c, r1, c1, path, rcs_)
         IN  IF ValidCell(r1, c1) THEN trace_loop(bx, by, r1, c1, s.path, s.rcs, n - 1)
             ELSE [err |-> TRUE, path |-> path, rcs |-> rcs_]

\* the end of an iteration whose trace returned tr and whose new Gt is g
EdgeDone(s, k, o, d, tr, g) ==
    [ok |-> TRUE,
     Gt |-> g,
     paths |-> AddToPaths(s.paths, tr.path),
     path_lst |-> Append(s.path_lst,
                    [id |-> k, origin |-> o, destination |-> d, track |-> Track(tr.rcs)]),
     netcost |-> NetcostOf(calculate_dt(HotSeed(g)))]

\* the iteration after create_paths: an exception of the trace leaves simulation
EdgeTraced(s, k, o, d, tr) ==
    IF tr.err THEN [s EXCEPT !.ok = FALSE]
    ELSE EdgeDone(s, k, o, d, tr, NewGt(s.Gt, tr.path))

\* the iteration after calculate_iwdt returned res
EdgeTransformed(s, k, o, d, res) ==
    IF res.err THEN [s EXCEPT !.ok = FALSE]
    ELSE EdgeTraced(s, k, o, d,
                    trace_loop(res.blx, res.bly, d[1], d[2], Zeros, <<>>, MaxSteps))

\* the iteration from the seeding of acs on, for origin o and destination d
EdgeFrom(s, k, o, d) ==
    IF ~ValidCell(o[1], o[2]) THEN [s EXCEPT !.ok = FALSE]
    ELSE EdgeTransformed(s, k, o, d,
             calculate_iwdt([[x \in Cells |-> acs_fill] EXCEPT ![At(o[1], o[2])] = 0],
                            s.netcost))

\* one iteration of the for loop of simulation, for row e with index label k - 1
EdgeStep(s, k, e) ==
    IF ~s.ok THEN s
    ELSE IF e.origin \notin DOMAIN pts \/ e.destination \notin DOMAIN pts
    THEN [s EXCEPT !.ok = FALSE]
    ELSE EdgeFrom(s, k, pts[e.origin], pts[e.destination])

\* the rows of layout up to the k-th
RECURSIVE RunUpTo(_, _)
RunUpTo(layout, k) ==
    IF k = 0
    THEN [ok |-> TRUE, Gt |-> [x \in Cells |-> Num(0)], paths |-> Zeros,
          path_lst |-> <<>>, netcost |-> netcost0]
    ELSE EdgeStep(RunUpTo(layout, k - 1), k, layout[k])

\* simulation(pts, layout, cost_dict, netsim_dict)
Run(layout) == RunUpTo(layout, Len(layout))

Next ==
    \/ NextEdge \/ Return \/ Lookup \/ Seed \/ Transform
    \/ Follow \/ Finish \/ BadIndex
    \/ TraceFails \/ Accumulate \/ UpdateGt \/ UpdateNetcost \/ CopyGt

Spec == Init /\ [][Next]_vars

(***************************************************************************)
(* create_paths called on its own                                          *)
(***************************************************************************)
\* origins a caller passes: the two corners of the grid
Origins == {<<0, 0>>, <<Rows - 1, Cols - 1>>}

\* lists of 1 .. MaxDest destinations
DestinationLists == UNION {[1 .. n -> Cells] : n \in 1 .. MaxDest}

\* no simulation is running
sim_idle ==
    /\ net_layout = <<>> /\ netcost = netcost0
    /\ i = Num(1) /\ Gmax = Num(1) /\ T = Num(1)
    /\ sim_pc = "idle" /\ sim_origin = <<>> /\ sim_destination = <<>>
    /\ acs = Zeros
    /\ Gt = [x \in Cells |-> Num(0)] /\ Gt_1 = [x \in Cells |-> Num(0)]
    /\ sim_paths = Zeros /\ sim_path_lst = <<>> /\ path_t = Zeros
    /\ seen = <<>> /\ written = <<>> /\ rasters = <<>>
    /\ seeds = <<>> /\ pairs = <<>>

\* a flat, finite dem and no reinforcement
cfg_idle == dem_finite = TRUE /\ weight = 0 /\ alpha = -10

\* create_paths(blx, bly, origin, destinations, start_path=0) up to the first
\* evaluation of the while condition
InitPaths ==
    /\ nrows = Rows
    /\ ncols = Cols
    /\ cfg_idle
    /\ tbl_idle
    /\ blx = Zeros
    /\ bly = Zeros
    /\ known = {}
    /\ origin \in Origins
    /\ destinations \in DestinationLists
    /\ cp_pc = "loop"
    /\ di = 1
    /\ r0 = destinations[1][1]
    /\ c0 = destinations[1][2]
    /\ pth = Zeros
    /\ rcs = <<>>
    /\ paths = Zeros
    /\ path_num = 0
    /\ path_lst = <<>>
    /\ nsteps = 0
    /\ sim_idle

\* every destination of DestinationLists is a cell of the grid, so no first read fails
NextPaths == Follow \/ Finish

SpecPaths == InitPaths /\ [][NextPaths]_vars

(***************************************************************************)
(* One edge on a flat grid of FlatSize x FlatSize cells: the seeding of    *)
(* acs, the distance transform and the trace, with no reinforcement.       *)
(***************************************************************************)
\* the one row of net_layout
FlatEdge == [origin |-> 0, destination |-> 1]

\* simulation at `initialize ACS` of its first edge, for a source s and a
\* destination d of the grid
InitFlat ==
    /\ nrows = FlatSize
    /\ ncols = FlatSize
    /\ cfg_idle
    /\ tbl_idle
    /\ cp_idle
    /\ seeds = <<>>
    /\ pairs = <<>>
    /\ net_layout = <<FlatEdge>>
    /\ netcost = netcost0
    /\ i = Num(1) /\ Gmax = Num(1) /\ T = Num(1)
    /\ sim_pc = "seed"
    /\ \E s \in Cells, d \in Cells :
          /\ sim_origin = <<s>>
          /\ sim_destination = <<d>>
    /\ acs = Zeros
    /\ Gt = [x \in Cells |-> Num(0)]
    /\ Gt_1 = [x \in Cells |-> Num(0)]
    /\ sim_paths = Zeros
    /\ sim_path_lst = <<>>
    /\ path_t = Zeros
    /\ seen = <<>>
    /\ written = <<>>
    /\ rasters = <<>>

NextFlat == Seed \/ Transform \/ Follow \/ Finish

SpecFlat == InitFlat /\ [][NextFlat]_vars

(***************************************************************************)
(* netgen.__paths_table(ids, iteration, df_out, option='all')              *)
(***************************************************************************)
\* the location ids a list may hold
IdPool == 0 .. MaxIds

\* the lists of two or more distinct location ids, up to MaxIds long
IdLists ==
    {l \in UNION {[1 .. n -> IdPool] : n \in 2 .. MaxIds} :
        \A a, b \in 1 .. Len(l) : a # b => l[a] # l[b]}

\* l[k] of a python list: k counts from 0, a negative k from the end
ListAt(l, k) == l[WrapIdx(k, Len(l)) + 1]

\* d_indxs = ids[:o_indx] + ids[o_indx+1:]
d_indxs == SubSeq(ids, 1, o_indx) \o SubSeq(ids, o_indx + 2, Len(ids))

InitTable ==
    /\ nrows = Rows
    /\ ncols = Cols
    /\ cfg_idle
    /\ cp_idle
    /\ sim_idle
    /\ ids \in IdLists
    /\ iteration \in {0, 1}
    /\ df_out = <<>>
    /\ o_indx = 0
    /\ d_pos = 1
    /\ tbl_pc = "inner"

\* for d_indx in d_indxs: df_out.loc[len(df_out.index)] = [ids[o_indx], ids[d_indx], iteration]
TableRow ==
    /\ tbl_pc = "inner"
    /\ d_pos <= Len(d_indxs)
    /\ IF ValidIdx(d_indxs[d_pos], Len(ids))
       THEN /\ df_out' = Append(df_out,
                            <<ListAt(ids, o_indx), ListAt(ids, d_indxs[d_pos]), iteration>>)
            /\ d_pos' = d_pos + 1
            /\ UNCHANGED tbl_pc
       ELSE \* ids[d_indx]: list index out of range
            /\ tbl_pc' = "IndexError"
            /\ UNCHANGED <<df_out, d_pos>>
    /\ UNCHANGED <<ids, iteration, o_indx>>
    /\ UNCHANGED <<gridvars, cfgvars, cpvars, simvars>>

\* for o_indx in range(len(ids)): the next origin
TableNextOrigin ==
    /\ tbl_pc = "inner"
    /\ d_pos > Len(d_indxs)
    /\ o_indx + 1 < Len(ids)
    /\ o_indx' = o_indx + 1
    /\ d_pos' = 1
    /\ UNCHANGED <<ids, iteration, df_out, tbl_pc>>
    /\ UNCHANGED <<gridvars, cfgvars, cpvars, simvars>>

\* return df_out
TableReturn ==
    /\ tbl_pc = "inner"
    /\ d_pos > Len(d_indxs)
    /\ o_indx + 1 >= Len(ids)
    /\ tbl_pc' = "returned"
    /\ UNCHANGED <<ids, iteration, df_out, o_indx, d_pos>>
    /\ UNCHANGED <<gridvars, cfgvars, cpvars, simvars>>

NextTable == TableRow \/ TableNextOrigin \/ TableReturn

SpecTable == InitTable /\ [][NextTable]_vars

(***************************************************************************)
(* Properties of create_paths (checked under SpecPaths)                    *)
(***************************************************************************)
Records == {path_lst[k] : k \in 1 .. Len(path_lst)}
TrackCells(t) == {t[j] : j \in 1 .. Len(t)}
\* the cells of the raster a track's cells name
Covered(t) == {At(t[j][1], t[j][2]) : j \in 1 .. Len(t)}
ZeroAt(p) == At(p[1], p[2]) \in known /\ Backlink(At(p[1], p[2])) = <<0, 0>>

C2_EightConnected ==
    \A rec \in Records :
        \A j \in 1 .. Len(rec.track) - 1 :
            Chebyshev(rec.track[j], rec.track[j + 1]) = 1

\* C2 witness: a returned track with a backlink of two rows and one column, whose
\* segment holds an intermediate cell.
C2_Witness ==
    /\ cp_pc = "done"
    /\ \E rec \in Records :
          /\ Len(rec.track) = 3
          /\ Abs(rec.track[3][1] - rec.track[1][1]) = 2
          /\ Abs(rec.track[3][2] - rec.track[1][2]) = 1
          /\ Backlink(At(rec.track[1][1], rec.track[1][2])) \in ChamferOffsets

\* C3 as stated: a trace takes at most rows*cols backlink-following steps.
C3_StepBound == nsteps <= Rows * Cols

\* C4 as stated: no record is returned for a destination that is not the origin
\* and whose own backlink is (0,0).
C4_NoRecordForUnreachable ==
    \A rec \in Records :
        ~(rec.destination # rec.origin /\ ZeroAt(rec.destination))

\* the number of tracks of the batch that cover cell x
TimesCovered(x) == Cardinality({k \in 1 .. Len(path_lst) : x \in Covered(path_lst[k].track)})

\* C5 (as amended): a call with more than one destination returns one record per
\* destination, in order, and a raster that is the cell-wise sum of the paths'
\* rasters: a cell holds the number of paths of the batch that cover it.
C5_BatchRasterIsSum ==
    (cp_pc = "done" /\ Len(destinations) > 1) =>
        /\ Len(path_lst) = Len(destinations)
        /\ \A k \in 1 .. Len(path_lst) : path_lst[k].destination = destinations[k]
        /\ \A x \in Cells : paths[x] = TimesCovered(x)

\* C5 witness: a finished batch with a cell shared by two of its paths.
C5_Witness ==
    /\ cp_pc = "done"
    /\ Len(destinations) > 1
    /\ \E x \in Cells : TimesCovered(x) >= 2 /\ paths[x] >= 2

\* C5 as stated: the batch raster is the cell-wise OR of the paths' rasters.
C5_Original ==
    (cp_pc = "done" /\ Len(destinations) > 1) =>
        /\ Len(path_lst) = Len(destinations)
        /\ \A x \in Cells : paths[x] = (IF TimesCovered(x) > 0 THEN 1 ELSE 0)

(***************************************************************************)
(* Properties of simulation (checked under Spec)                           *)
(***************************************************************************)
\* the edges whose iteration has run to its end
EdgesDone ==
    IF sim_pc \in {"copy", "next", "returned"} THEN Len(net_layout)
    ELSE Len(net_layout) - 1

InRange(g) == FLeq(Num(0), g) /\ FLeq(g, Gmax)

\* C6 (as amended): starting from Gt = 0 everywhere, after every edge every cell
\* satisfies 0 <= Gt <= Gmax, for every configuration with 0 <= i <= Gmax and
\* T >= 1 (in exact arithmetic).
C6_GtBounded ==
    (FLeq(Num(1), T) /\ FLeq(Num(0), i) /\ FLeq(i, Gmax)) =>
        \A x \in Cells : InRange(Gt[x]) /\ InRange(Gt_1[x])

\* C6 witness: two edges processed with T >= 1 and 0 < i <= Gmax, a cell of the
\* paths holding a potential strictly between 0 and Gmax.
C6_Witness ==
    /\ sim_pc = "returned"
    /\ Len(sim_path_lst) = 2
    /\ FLeq(Num(1), T) /\ FLeq(i, Gmax) /\ i # Num(0)
    /\ \E x \in Cells : sim_paths[x] > 0 /\ Gt[x] # Num(0) /\ Gt[x] # Gmax /\ InRange(Gt[x])

\* C6 as stated: 0 <= Gt <= Gmax for every i >= 0, Gmax > 0, T > 0.
C6_Original == \A x \in Cells : InRange(Gt[x])

RECURSIVE SumAt(_, _, _)
SumAt(rs, k, x) == IF k = 0 THEN 0 ELSE rs[k][x] + SumAt(rs, k - 1, x)

\* C7: after any number k of processed edges the cumulative paths raster is the
\* cell-wise sum of the k single-edge rasters, none of which holds a negative
\* value: it is never reset and no cell ever decreases.
C7_PathsIsSum ==
    /\ Len(rasters) = Len(sim_path_lst)
    /\ \A x \in Cells :
          /\ sim_paths[x] = SumAt(rasters, Len(rasters), x)
          /\ \A k \in 1 .. Len(rasters) : rasters[k][x] \in {0, 1}

\* C7 witness: two edges processed, a cell on both paths and a cell on one only.
C7_Witness ==
    /\ Len(rasters) = 2
    /\ \E x \in Cells : sim_paths[x] = 2
    /\ \E x \in Cells : sim_paths[x] = 1 /\ rasters[2][x] = 0

\* C8: cost_dict['netcost'] is assigned exactly once per edge, after the edge's
\* raster has been added to paths and Gt has been updated; calculate_iwdt of
\* edge k+1 is called with the netcost assigned at the end of edge k, and that of
\* edge 1 with the caller's netcost.
C8_NetcostOncePerEdge ==
    /\ Len(written) = EdgesDone
    /\ Len(written) <= Len(rasters)
    /\ netcost = (IF written = <<>> THEN netcost0 ELSE written[Len(written)])
    /\ sim_pc = "copy" =>
          /\ Len(rasters) = Len(written)
          /\ Gt = NewGt(Gt_1, rasters[Len(written)])
          /\ written[Len(written)] = NetcostOf(calculate_dt(HotSeed(Gt)))
    /\ \A k \in 1 .. Len(seen) :
          seen[k] = (IF k = 1 THEN netcost0 ELSE written[k - 1])

\* C8 witness: the transform of the second edge has been called, with a netcost
\* that is the one written by the first edge and no longer the caller's.
C8_Witness ==
    /\ Len(seen) = 2
    /\ seen[2] = written[1]
    /\ seen[2] # netcost0

UnknownId(e) == e.origin \notin DOMAIN pts \/ e.destination \notin DOMAIN pts
OutsideGrid(e) == ~UnknownId(e) /\ (pts[e.origin] \notin Cells \/ pts[e.destination] \notin Cells)
NothingDone == netcost = netcost0 /\ written = <<>> /\ sim_path_lst = <<>> /\ sim_paths = Zeros

\* C9 as stated: when an edge names an id that is not in the point table, no
\* edge has been processed and netcost is as the caller passed it.
C9_UnknownIdBeforeMutation ==
    (\E k \in 1 .. Len(net_layout) : UnknownId(net_layout[k])) => NothingDone

\* C10 as stated: when a point used by an edge lies outside the grid, nothing is
\* seeded or traced, no edge has been processed and netcost is as the caller
\* passed it.
C10_OutsideGridBeforeMutation ==
    (\E k \in 1 .. Len(net_layout) : OutsideGrid(net_layout[k])) =>
        /\ NothingDone
        /\ sim_pc \in {"lookup", "seed", "IndexError"}

\* the current edge failed in its distance transform or in its trace
EdgeFailed == sim_pc = "NumericalError" \/ (sim_pc = "IndexError" /\ cp_pc = "IndexError")

\* C11 as stated: when an edge fails in its transform or its trace, the list of
\* records simulation hands back holds one entry per edge taken up, the failed
\* edge's included.
C11_FailedEdgeRecorded == EdgeFailed => Len(sim_path_lst) = Len(net_layout)

Failed == sim_pc \in {"IndexError", "NumericalError"}

\* the run holds what out holds
ReturnedAs(out) ==
    /\ out.ok
    /\ Gt = out.Gt
    /\ sim_paths = out.paths
    /\ sim_path_lst = out.path_lst

CornerEdges == <<[origin |-> 0, destination |-> 1], [origin |-> 1, destination |-> 0]>>

\* a two-edge run against the run over the swapped list and the run over its
\* second edge alone
OrderMatters(swapped, alone) ==
    /\ (net_layout = CornerEdges /\ weight # 0 /\ FLeq(Num(1), i)) =>
          /\ swapped.ok
          /\ swapped.paths # sim_paths
          /\ rasters[2] # alone.paths
    /\ (swapped.ok /\ swapped.paths # sim_paths) =>
          /\ weight # 0
          /\ seen[2] = written[1]
          /\ seen[2] # netcost0

\* C13: the result depends on edge order.  With weight > 0 and i >= 1 the run
\* over CornerEdges returns a paths raster that differs from the one of the
\* swapped list, and the path of its second edge is not the path that edge has
\* when it comes first; and whenever the swapped list of a two-edge run gives
\* another raster, the weight is not 0 and the second edge was traced on a
\* netcost that the first edge wrote.
C13_OrderSensitive ==
    (sim_pc = "returned" /\ Len(net_layout) = 2) =>
        OrderMatters(Run(<<net_layout[2], net_layout[1]>>), Run(<<net_layout[2]>>))

\* C13 witness: the run over CornerEdges with weight > 0 and i >= 1 has returned,
\* its second path off the diagonal the first edge took.
C13_Witness ==
    /\ sim_pc = "returned"
    /\ net_layout = CornerEdges
    /\ weight # 0
    /\ FLeq(Num(1), i)
    /\ rasters[1] # rasters[2]
    /\ Run(<<net_layout[2], net_layout[1]>>).paths # sim_paths

(***************************************************************************)
(* The flat grid                                                           *)
(***************************************************************************)
\* the transform of the edge has returned
Transformed_done == sim_pc = "trace"

\* the corner scenario: source (0, 0), destination (FlatSize - 1, FlatSize - 1)
CornerScenario ==
    /\ sim_origin = <<<<0, 0>>>>
    /\ sim_destination = <<<<FlatSize - 1, FlatSize - 1>>>>

\* the cells of the main diagonal, from the far corner to (0, 0)
DiagonalDown == [j \in 1 .. FlatSize |-> <<FlatSize - j, FlatSize - j>>]
\* the cells of the main diagonal, from (0, 0) to the far corner
DiagonalUp == [j \in 1 .. FlatSize |-> <<j - 1, j - 1>>]

MinOf(S) == CHOOSE m \in S : \A v \in S : m <= v

\* the costs of the chains that reach x by one chamfer step from a cell n of the
\* grid, given the costs d of the chains that reach n
OneMoreStep(d, lc, x, offs, ldm) ==
    {d[<<x[1] + offs[j][1], x[2] + offs[j][2]>>] + ldm[j] * lc[x] :
        j \in {h \in 1 .. Len(offs) : <<x[1] + offs[h][1], x[2] + offs[h][2]>> \in Cells}}

\* the cheapest chains of at most n more chamfer steps, from the costs d
RECURSIVE ChainCosts(_, _, _)
StepOn(d, nx, lc, n) == IF nx = d THEN d ELSE ChainCosts(nx, lc, n - 1)
ChainCosts(d, lc, n) ==
    IF n = 0 THEN d
    ELSE StepOn(d,
                [x \in Cells |->
                    MinOf({d[x]} \cup OneMoreStep(d, lc, x, dxdy0, ldm0)
                                 \cup OneMoreStep(d, lc, x, dxdy1, ldm1))],
                lc, n)

\* the transform of the current edge has just returned
JustTransformed == sim_pc = "trace" /\ cp_pc = "loop" /\ nsteps = 0

\* the cost of the cheapest chain of chamfer steps from the origin to each cell,
\* on the netcost the transform of the current edge was handed
CheapestChain ==
    ChainCosts(seeds[Len(seeds)],
               [x \in Cells |-> local_cost(x, seen[Len(seen)])], NCells)

\* acs is at most cc at every cell
AtMost(cc) == \A x \in Cells : acs[x] <= cc[x]

CallUnder(cap) ==
    sweep_pairs_capped([acs |-> seeds[Len(seeds)], blx |-> Zeros, bly |-> Zeros], 1,
                       [x \in Cells |-> local_cost(x, seen[Len(seen)])], cap)

\* a call under the cap cap ended as res: below the threshold within the cap, or
\* failed at the cap with the last pair still at or above the threshold
EndsWithin(res, cap) ==
    /\ res.it >= 1 /\ res.it <= cap
    /\ res.err = FALSE => res.change < threshold
    /\ res.err = TRUE => (res.it = cap /\ res.change >= threshold)

\* a call that needs it pairs, run under the cap cap, ended as res
FailsBelow(res, cap, it) == EndsWithin(res, cap) /\ (res.err <=> cap < it)

NetcostUpdated == sim_pc = "copy"

\* no entry written to cost_dict['netcost'] so far is negative
NoNegativeNetcost ==
    \A k \in 1 .. Len(written) : \A x \in Cells : NetcostSign(written[k][x]) >= 0

\* C17: after every edge, a cell with Gt >= 1.0 has d = 0 and netcost exactly 0;
\* with alpha < 0 every cell of netcost is >= 0, and with alpha > 0 every cell
\* with d > 0 holds a negative netcost.
C17_NetcostSign ==
    /\ NetcostUpdated =>
          \A x \in Cells : FLeq(Num(1), Gt[x]) => netcost[x] = <<"exp", 0>>
    /\ alpha < 0 => NoNegativeNetcost
    /\ alpha > 0 =>
          \A k \in 1 .. Len(written) : \A x \in Cells :
              written[k][x][2] > 0 => NetcostSign(written[k][x]) < 0

\* C17 witness: with alpha < 0 an edge has written a netcost that is 0 at a cell
\* with Gt >= 1.0 and positive at a cell away from it.
C17_Witness ==
    /\ NetcostUpdated
    /\ alpha < 0
    /\ \E x \in Cells : FLeq(Num(1), Gt[x]) /\ NetcostSign(netcost[x]) = 0
    /\ \E x \in Cells : NetcostSign(netcost[x]) > 0

\* C17 as stated: netcost >= 0 whatever the sign of alpha.
C17_Original == NoNegativeNetcost

(***************************************************************************)
(* The order of the edges                                                  *)
(***************************************************************************)
\* the k-th record is the record of the k-th row of net_layout
RecordOfEdge(k) ==
    /\ sim_path_lst[k].origin = pts[net_layout[k].origin]
    /\ sim_path_lst[k].destination = pts[net_layout[k].destination]

\* the k-th transform was seeded at the origin of the k-th row
SeededForEdge(k) ==
    seeds[k] = [[x \in Cells |-> acs_fill]
                   EXCEPT ![At(pts[net_layout[k].origin][1], pts[net_layout[k].origin][2])] = 0]

\* C18: the edges are processed in the order of net_layout, one at a time: at
\* every moment the records are those of the first rows, in order, at most the
\* last row taken up is still without a record, and the k-th transform is the
\* one of the k-th row; the list returned has exactly one record per row, in
\* the same order, each with the origin and destination cells of its row.
C18_EdgesInOrder ==
    /\ Len(sim_path_lst) <= Len(net_layout)
    /\ Len(net_layout) <= Len(sim_path_lst) + 1
    /\ Len(seeds) <= Len(net_layout)
    /\ \A k \in 1 .. Len(sim_path_lst) : RecordOfEdge(k)
    /\ \A k \in 1 .. Len(seeds) : SeededForEdge(k)
    /\ sim_pc = "returned" => Len(sim_path_lst) = Len(net_layout)

\* C18 witness: a run over two rows with different origins and destinations has
\* returned.
C18_Witness ==
    /\ sim_pc = "returned"
    /\ Len(sim_path_lst) = 2
    /\ pts[net_layout[1].origin] # pts[net_layout[2].origin]
    /\ pts[net_layout[1].destination] # pts[net_layout[2].destination]

(***************************************************************************)
(* What a run changes                                                      *)
(***************************************************************************)
\* a step leaves the caller's arguments as they are, cost_dict['netcost'] apart:
\* the dem, the weight, alpha, i, Gmax, T and the rows of net_layout read so far
ArgumentsKept ==
    /\ UNCHANGED <<gridvars, cfgvars, i, Gmax, T>>
    /\ Len(net_layout') >= Len(net_layout)
    /\ \A k \in 1 .. Len(net_layout) : net_layout'[k] = net_layout[k]

\* the transform of the current edge returned what it returns for a freshly
\* seeded acs, whatever the previous edge left in acs, blx and bly
res_fresh(res) == acs = res.acs /\ blx = res.blx /\ bly = res.bly
FreshGrids ==
    JustTransformed =>
        res_fresh(calculate_iwdt(
            [[x \in Cells |-> acs_fill]
                EXCEPT ![At(sim_origin[1][1], sim_origin[1][2])] = 0],
            netcost))

\* C19: no step of a run changes dem, weight, alpha, i, Gmax, T or a row of the
\* edge list; every transform is handed an acs that is 0 at the origin of its
\* edge and the sentinel elsewhere, and the acs and backlink grids after it are
\* those of that fresh seed, nothing of the previous edge.
C19_OnlyNetcostChanges ==
    /\ [](\A k \in 1 .. Len(seeds) : SeededForEdge(k))
    /\ []FreshGrids
    /\ [][ArgumentsKept]_vars

\* C19 witness: a second edge has been transformed after the first edge rewrote
\* netcost.
C19_Witness ==
    /\ JustTransformed
    /\ Len(seeds) = 2
    /\ Len(written) = 1
    /\ written[1] # netcost0
    /\ blx # Zeros

(***************************************************************************)
(* The table of paths                                                      *)
(***************************************************************************)
\* the rows of every ordered pair of distinct ids
AllPairs ==
    {<<ids[a], ids[b], iteration>> : a, b \in 1 .. Len(ids)} \
        {<<ids[a], ids[a], iteration>> : a \in 1 .. Len(ids)}

\* C20: with option 'all', for any list of n distinct ids, no call raises, no row
\* has its origin equal to its destination, and the table returned holds
\* exactly one row for every ordered pair of distinct ids, n * (n - 1) rows.
C20_AllOrderedPairs ==
    /\ tbl_pc # "IndexError"
    /\ \A k \in 1 .. Len(df_out) : df_out[k][1] # df_out[k][2]
    /\ tbl_pc = "returned" =>
          /\ Len(df_out) = Len(ids) * (Len(ids) - 1)
          /\ {df_out[k] : k \in 1 .. Len(df_out)} = AllPairs

(***************************************************************************)
(* The update of the ground potential                                      *)
(***************************************************************************)
\* Gt of the current edge has been computed and Gt_1 not yet overwritten
GtUpdated == sim_pc \in {"netcost", "copy"}

\* what a cell with previous potential g holds after an edge: the decayed value
\* g * (1 - 1/T) off the path, and i * (1 - g / Gmax) more on it
Decayed(g) == FMul(g, FSub(Num(1), FDiv(Num(1), T)))
Gained(g) == FMul(i, FSub(Num(1), FDiv(g, Gmax)))
AfterEdge(g, onpath) == IF onpath THEN FAdd(Decayed(g), Gained(g)) ELSE Decayed(g)

\* C21: for each edge the new Gt is, cell by cell, the previous Gt decayed to
\* Gt_prev * (1 - 1/T), plus i * (1 - Gt_prev / Gmax) on the cells of the path of
\* the edge; the previous Gt is the Gt the edge before left, 0 for the first edge.
C21_GtUpdate ==
    /\ path_t \in [Cells -> {0, 1}]
    /\ GtUpdated =>
          \A x \in Cells : Gt[x] = AfterEdge(Gt_1[x], path_t[x] = 1)
    /\ ~GtUpdated => Gt_1 = Gt
    /\ (Len(written) = 0 /\ ~GtUpdated) => Gt = [x \in Cells |-> Num(0)]

\* C21 witness: the second edge has updated Gt, with T # 1, over cells that
\* held potential before, one on its path and one off it.
C21_Witness ==
    /\ sim_pc = "netcost"
    /\ Len(net_layout) = 2
    /\ T # Num(1)
    /\ \E x \in Cells : path_t[x] = 1 /\ Gt_1[x] # Num(0) /\ Gt[x] # Gt_1[x]
    /\ \E x \in Cells : path_t[x] = 0 /\ Gt_1[x] # Num(0)

(***************************************************************************)
(* Segments chained along a backlink chain                                 *)
(***************************************************************************)
\* the cells of the backlink chain of the current destination: the destination
\* and the nsteps cells reached from it, one per backlink followed
RECURSIVE ChainFrom(_, _)
ChainFrom(seq, n) ==
    IF n = 0 THEN seq
    ELSE ChainFrom(Append(seq,
                      <<seq[Len(seq)][1] + blx[At(seq[Len(seq)][1], seq[Len(seq)][2])],
                        seq[Len(seq)][2] + bly[At(seq[Len(seq)][1], seq[Len(seq)][2])]>>),
                   n - 1)
Chain == ChainFrom(<<destinations[di]>>, nsteps)

\* the index in rcs at which the segment from the j-th chain cell starts
RECURSIVE SegmentStart(_, _)
SegmentStart(ch, j) ==
    IF j = 1 THEN 1 ELSE SegmentStart(ch, j - 1) + Chebyshev(ch[j - 1], ch[j])

\* twice the area of the triangle a, b, p: 0 when p is on the line through a and b
Cross(a, b, p) == (p[1] - a[1]) * (b[2] - a[2]) - (p[2] - a[2]) * (b[1] - a[1])

\* the entries of t from index from on are the cells of the straight line from a
\* towards b: a first, one cell per unit of Chebyshev distance, each a
\* king's move from the one before, none farther than half a cell from the
\* line, b itself left out
StraightFrom(t, from, a, b) ==
    /\ from + Chebyshev(a, b) - 1 <= Len(t)
    /\ \A k \in 0 .. Chebyshev(a, b) - 1 :
          /\ Chebyshev(t[from + k], a) = k
          /\ Chebyshev(t[from + k], b) = Chebyshev(a, b) - k
          /\ 2 * Abs(Cross(a, b, t[from + k])) <= Chebyshev(a, b)
          /\ t[from + k] # b

\* the list t is the segments of the chain ch, one after the other
ChainedSegments(t, ch) ==
    /\ \A j \in 1 .. Len(ch) - 1 : StraightFrom(t, SegmentStart(ch, j), ch[j], ch[j + 1])
    /\ Len(t) >= SegmentStart(ch, Len(ch)) - 1
    /\ Len(t) <= SegmentStart(ch, Len(ch))
    /\ Len(t) = SegmentStart(ch, Len(ch)) => t[Len(t)] = ch[Len(ch)]
    /\ \A k \in 1 .. Len(t) - 1 : t[k] # t[k + 1]

Ones(raster) == {x \in Cells : raster[x] = 1}

\* the number of records so far whose track lists the cell x (a track entry
\* names a cell as numpy indexing does)
TracksThrough(x) ==
    Cardinality({k \in 1 .. Len(sim_path_lst) : x \in Covered(sim_path_lst[k].track)})

\* C23: for a single destination the raster create_paths returns is binary and
\* the cells that hold 1 are exactly the cells its track lists; in simulation
\* the same holds of the raster of every edge, and after k edges every cell of
\* paths is an integer between 0 and k, the number of processed edges whose
\* track lists that cell.
C23_RasterIsTrack ==
    /\ (cp_pc = "done" /\ Len(destinations) = 1) =>
          /\ paths \in [Cells -> {0, 1}]
          /\ Ones(paths) = Covered(path_lst[1].track)
    /\ \A k \in 1 .. Len(sim_path_lst) :
          /\ rasters[k] \in [Cells -> {0, 1}]
          /\ Ones(rasters[k]) = Covered(sim_path_lst[k].track)
    /\ \A x \in Cells :
          /\ sim_paths[x] \in 0 .. Len(sim_path_lst)
          /\ sim_paths[x] = TracksThrough(x)

\* C23 witness: two edges have been processed, their tracks of more than one
\* cell, with a cell on both and a cell on one of them only.
C23_Witness ==
    /\ Len(sim_path_lst) = 2
    /\ Len(sim_path_lst[1].track) > 1
    /\ Len(sim_path_lst[2].track) > 1
    /\ \E x \in Cells : sim_paths[x] = 2
    /\ \E x \in Cells : sim_paths[x] = 1

(***************************************************************************)
(* The ids of the records                                                  *)
(***************************************************************************)
\* the records of lst carry the ids start + 1, start + 2, ... in order
IdsFrom(lst, start) == \A k \in 1 .. Len(lst) : lst[k].id = start + k

SameCell(k) == pts[net_layout[k].origin] = pts[net_layout[k].destination]

\* C25: for an edge whose origin and destination are the same cell the trace
\* follows no backlink: the track is that one cell, the raster of the edge has
\* exactly one cell set to 1, and the edge updates Gt and netcost like any
\* other: its Gt is the one the update formula gives for its raster, and one
\* netcost has been written per edge.
C25_SameCellEdge ==
    /\ \A k \in 1 .. Len(sim_path_lst) :
          SameCell(k) =>
              /\ sim_path_lst[k].track = <<pts[net_layout[k].origin]>>
              /\ Cardinality(Ones(rasters[k])) = 1
              /\ \A x \in Cells : rasters[k][x] \in {0, 1}
    /\ (sim_pc = "trace" /\ SameCell(Len(net_layout))) => nsteps = 0
    /\ (sim_pc \in {"gt", "netcost", "copy", "next", "returned"}) =>
          Len(written) = EdgesDone
    /\ (sim_pc = "copy" /\ SameCell(Len(net_layout))) =>
          /\ \A x \in Cells : Gt[x] = AfterEdge(Gt_1[x], path_t[x] = 1)
          /\ netcost = written[Len(written)]
          /\ netcost = NetcostOf(calculate_dt(HotSeed(Gt)))

\* C25 witness: the second edge of a run goes from a cell to itself and has
\* updated Gt and netcost, its cell holding more potential than before.
C25_Witness ==
    /\ sim_pc = "copy"
    /\ Len(net_layout) = 2
    /\ SameCell(2)
    /\ Len(sim_path_lst[2].track) = 1
    /\ Len(written) = 2
    /\ \E x \in Cells : path_t[x] = 1 /\ Gt[x] # Gt_1[x]

====
